---- MODULE Spec2Model ----
(***************************************************************************)
(* D3tectConvert: the normalizer that turns MITRE's ATT&CK <-> D3FEND      *)
(* mapping dump into a search index (scripts/generate_search_db.py,        *)
(* scripts/generate_search_index.py, the tail of app.load_mappings) and    *)
(* the query engine that serves it (app.search, app.query_db_for_search,   *)
(* app.api_attacks, app.load_mappings).                                    *)
(*                                                                         *)
(* A Python str is a sequence of one-character strings, so that strip,     *)
(* upper, split, the regular expressions, SQL LIKE and HTML escaping are   *)
(* computed character by character, as the code computes them.             *)
(***************************************************************************)
EXTENDS Integers, Sequences, FiniteSets, TLC

VARIABLES
    MAPPINGS_FILE,      \* mappings.json: the raw ontology document
    SEARCH_DB,          \* static/search_index.sqlite as a reader finds it
    SEARCH_INDEX_FILE,  \* static/search_index.json as a reader finds it
    prior,              \* the persisted index before any rebuild started
    gen,                \* the running generator script: which, where, its locals
    final_mappings,     \* what the normalizer in app.load_mappings computed
    mappings,           \* app.py's module global `mappings`
    mappings_progress,  \* app.py's module global `mappings_progress`
    resp,               \* the last response the app sent
    load_pc             \* where a running call of app.load_mappings stands

vars == <<MAPPINGS_FILE, SEARCH_DB, SEARCH_INDEX_FILE, prior, gen,
          final_mappings, mappings, mappings_progress, resp, load_pc>>

(***************************************************************************)
(* Bounds of the model.                                                    *)
(***************************************************************************)
\* rows of a raw document
MaxRows == 2
\* rows of a document behind an index that is queried
MaxIndexRows == 3

(***************************************************************************)
(* Python str operations.                                                  *)
(***************************************************************************)
LowerCase == <<"a","b","c","d","e","f","g","h","i","j","k","l","m","n","o","p","q","r","s","t","u","v","w","x","y","z">>
UpperCase == <<"A","B","C","D","E","F","G","H","I","J","K","L","M","N","O","P","Q","R","S","T","U","V","W","X","Y","Z">>
Digits == {"0", "1", "2", "3", "4", "5", "6", "7", "8", "9"}

\* The characters of the model in ASCII order (SQLite's BINARY collation).
Ascii == <<" ","\"","#","%","&","'","-",".","/","0","1","2","3","4","5","6","7","8","9",":",";","<",">">> \o UpperCase \o <<"_">> \o LowerCase \o <<"{","}">>

Chars == {Ascii[i] : i \in 1..Len(Ascii)}

OrdOf == [c \in Chars |-> CHOOSE i \in 1..Len(Ascii) : Ascii[i] = c]

UpperOf ==
    [c \in Chars |->
        IF \E i \in 1..26 : LowerCase[i] = c
        THEN UpperCase[CHOOSE i \in 1..26 : LowerCase[i] = c]
        ELSE c]

LowerOf ==
    [c \in Chars |->
        IF \E i \in 1..26 : UpperCase[i] = c
        THEN LowerCase[CHOOSE i \in 1..26 : UpperCase[i] = c]
        ELSE c]

Ord(c) == OrdOf[c]
upper1(c) == UpperOf[c]
lower1(c) == LowerOf[c]

\* str.upper()
upper(s) == [i \in 1..Len(s) |-> upper1(s[i])]

\* str.lower()
lower(s) == [i \in 1..Len(s) |-> lower1(s[i])]

IsSpace(c) == c = " "

RECURSIVE lstrip(_)
lstrip(s) == IF s # <<>> /\ IsSpace(Head(s)) THEN lstrip(Tail(s)) ELSE s

RECURSIVE rstrip(_)
rstrip(s) ==
    IF s # <<>> /\ IsSpace(s[Len(s)]) THEN rstrip(SubSeq(s, 1, Len(s) - 1)) ELSE s

\* str.strip()
strip(s) == rstrip(lstrip(s))

\* str.startswith(p)
startswith(s, p) == Len(s) >= Len(p) /\ SubSeq(s, 1, Len(p)) = p

\* `sub in s`
contains(s, sub) ==
    \E i \in 0..(Len(s) - Len(sub)) : SubSeq(s, i + 1, i + Len(sub)) = sub

\* s.split("#")[-1]: what follows the last "#" (s itself when it has none)
split_last(s) ==
    IF \E i \in 1..Len(s) : s[i] = "#"
    THEN LET k == CHOOSE i \in 1..Len(s) :
                      s[i] = "#" /\ \A j \in (i + 1)..Len(s) : s[j] # "#"
         IN  SubSeq(s, k + 1, Len(s))
    ELSE s

\* bytewise a < b
RECURSIVE str_lt(_, _)
str_lt(a, b) ==
    IF b = <<>> THEN FALSE
    ELSE IF a = <<>> THEN TRUE
    ELSE IF Head(a) = Head(b) THEN str_lt(Tail(a), Tail(b))
    ELSE Ord(Head(a)) < Ord(Head(b))

(***************************************************************************)
(* JSON values and Python values.  A value is a str (t = "str", s its      *)
(* characters), the number 5 ("num"), the dict {'k': 1} ("obj") or None    *)
(* ("none"); a field of a row holds a value, holds {"value": value}        *)
(* (bind = TRUE), or is absent.                                            *)
(***************************************************************************)
Str(s) == [t |-> "str", s |-> s]
Num == [t |-> "num", s |-> <<>>]
Obj == [t |-> "obj", s |-> <<>>]
None == [t |-> "none", s |-> <<>>]

IsStr(v) == v.t = "str"

\* Python truthiness
truthy(v) == IF v.t = "str" THEN v.s # <<>> ELSE v.t \in {"num", "obj"}

\* `a or b`
or(a, b) == IF truthy(a) THEN a ELSE b

\* str(v)
str(v) ==
    CASE v.t = "str" -> v.s
      [] v.t = "num" -> <<"5">>
      [] v.t = "obj" -> <<"{","'","k","'",":"," ","1","}">>
      [] OTHER -> <<"N","o","n","e">>

Fields == {"off_tech_id", "off_tech", "off_tech_label", "def_tactic",
           "def_tech", "def_tech_label", "def_artifact", "def_artifact_label"}

Absent == [bind |-> FALSE, v |-> None]
Direct(v) == [bind |-> FALSE, v |-> v]
Bind(v) == [bind |-> TRUE, v |-> v]

\* A row of the document: a JSON object (dict = TRUE) with its fields, or some
\* other JSON value, truthy ("junk") or falsy (null).
NoFields == [f \in Fields |-> Absent]
RowObj(fs) == [dict |-> TRUE, truthy |-> \E f \in Fields : fs[f] # Absent, f |-> fs]
RowJunk == [dict |-> FALSE, truthy |-> TRUE, f |-> NoFields]
RowNull == [dict |-> FALSE, truthy |-> FALSE, f |-> NoFields]

\* obj.get(field) on a non-dict raises AttributeError
raises(obj) == obj.truthy /\ ~obj.dict

extract_value(obj, field) ==
    IF ~obj.truthy THEN Str(<<>>)
    ELSE IF obj.f[field].bind THEN obj.f[field].v
    ELSE or(obj.f[field].v, Str(<<>>))

(***************************************************************************)
(* The normalizer: one row.                                                *)
(***************************************************************************)
tactic_names ==
    {<<"h","a","r","d","e","n">>, <<"d","e","t","e","c","t">>, <<"i","s","o","l","a","t","e">>, <<"d","e","c","e","i","v","e">>, <<"e","v","i","c","t">>, <<"r","e","s","t","o","r","e">>}

T_tactic == <<"t","a","c","t","i","c">>
T_technique == <<"t","e","c","h","n","i","q","u","e">>
UrlBase == <<"h","t","t","p","s",":","/","/","d","3","f","e","n","d",".","m","i","t","r","e",".","o","r","g","/">>

\* The secondary ontology (stuff/d3fend.json) as app.load_mappings indexes it:
\* the ids it knows, with the canonical id and the attack id of each.
d3_meta_keys == {<<"D","3","-","N","T","A">>}
d3_meta_d3fend_id(k) == <<"D","3","A","-","1">>
d3_meta_attack_id(k) == <<"T","1","5","6","6">>

\* off_tech_id as the code resolves it, before the emptiness test
off_tech_raw(entry) ==
    LET v == or(extract_value(entry, "off_tech_id"), extract_value(entry, "off_tech"))
    IN  IF IsStr(v) /\ contains(v.s, <<"#">>) THEN Str(split_last(v.s)) ELSE v

off_tech_id(entry) == upper(strip(str(off_tech_raw(entry))))

\* the row is kept past the two `continue`s
is_attack_row(entry) ==
    truthy(off_tech_raw(entry)) /\ startswith(off_tech_id(entry), <<"T">>)

attack_name(entry) ==
    strip(str(or(extract_value(entry, "off_tech_label"), Str(off_tech_id(entry)))))

parent_tactic_id(entry) ==
    LET raw == or(extract_value(entry, "def_tactic"), Str(<<>>))
    IN  IF IsStr(raw) /\ raw.s # <<>>
        THEN IF contains(raw.s, <<"#">>)
             THEN upper(strip(split_last(raw.s)))
             ELSE upper(strip(raw.s))
        ELSE <<>>

field_label(entry, field) ==
    or(extract_value(entry, field \o "_label"), extract_value(entry, field))

\* d3_id of one field: <<>> stands for None (and for the empty id, which the
\* code treats the same way)
d3_id(entry, field) ==
    LET uri == extract_value(entry, field)
        label == field_label(entry, field)
    IN  IF truthy(uri) /\ IsStr(uri) /\ contains(uri.s, <<"#">>)
        THEN strip(split_last(uri.s))
        ELSE IF IsStr(label) /\ startswith(label.s, <<"D","3">>) THEN label.s
        ELSE <<>>

name_str(entry, field) ==
    LET label == field_label(entry, field)
        n == IF IsStr(label) THEN strip(str(label)) ELSE <<>>
    IN  IF n # <<>> THEN n ELSE d3_id(entry, field)

\* the dict appended to entry_data["d3fend"]; `enrich` is app.load_mappings'
\* lookup in d3_meta, which the two scripts do not have
d3_entry(entry, field, enrich) ==
    LET id == d3_id(entry, field)
        name == name_str(entry, field)
        path == IF lower(name) \in tactic_names THEN T_tactic ELSE T_technique
        parent == parent_tactic_id(entry)
    IN  [id |-> id,
         d3fend_id |-> IF enrich /\ id \in d3_meta_keys THEN d3_meta_d3fend_id(id) ELSE <<>>,
         attack_ref |-> IF enrich /\ id \in d3_meta_keys THEN d3_meta_attack_id(id) ELSE <<>>,
         name |-> name,
         type |-> path,
         tactic_id |-> IF path = T_technique /\ parent # <<>> THEN parent ELSE <<>>,
         url |-> UrlBase \o path \o <<"/","d","3","f",":">> \o id]

\* the loop over ["def_tech", "def_artifact"] with its `seen` set
row_d3fend(entry, enrich) ==
    LET a == d3_id(entry, "def_tech")
        b == d3_id(entry, "def_artifact")
    IN  (IF a # <<>> THEN <<d3_entry(entry, "def_tech", enrich)>> ELSE <<>>)
        \o (IF b # <<>> /\ b # a THEN <<d3_entry(entry, "def_artifact", enrich)>> ELSE <<>>)

preferred(d) == d.type = T_tactic /\ lower(d.name) \in tactic_names

IsPreferred(d) == preferred(d)
NotPreferred(d) == ~preferred(d)

\* list.sort(key = 0 if preferred else 1): stable
sort_tactics_first(l) == SelectSeq(l, IsPreferred) \o SelectSeq(l, NotPreferred)

entry_data(entry, enrich) ==
    [attack_id |-> off_tech_id(entry),
     attack_name |-> attack_name(entry),
     d3fend |-> IF enrich THEN sort_tactics_first(row_d3fend(entry, TRUE))
                ELSE row_d3fend(entry, FALSE)]

(***************************************************************************)
(* The normalizer: the document, the loop over its rows, the grouping.     *)
(* A document is unparsable ("invalid": json.load raises), a JSON array    *)
(* ("array": raw.items() raises), a SPARQL result whose bindings are a     *)
(* list ("sparql") or a number ("badbindings": the for loop raises), or a  *)
(* UUID-keyed object ("uuid"); "missing" is no mappings.json at all.       *)
(***************************************************************************)
Doc(shape, rows) == [shape |-> shape, rows |-> rows]

IsDict(obj) == obj.dict

\* the list the for loop iterates
bindings(raw) ==
    IF raw.shape = "sparql" THEN raw.rows ELSE SelectSeq(raw.rows, IsDict)

\* json.load, the shape test or the loop over the rows raises
parse_raises(raw) ==
    \/ raw.shape \in {"invalid", "array", "badbindings"}
    \/ \E i \in 1..Len(bindings(raw)) : raises(bindings(raw)[i])

\* a mutation of row_mappings: a row is kept with an empty d3fend list
RECURSIVE row_mappings_keep_empty(_, _)
row_mappings_keep_empty(rows, enrich) ==
    IF rows = <<>> THEN <<>>
    ELSE LET entry == Head(rows)
             rest == row_mappings_keep_empty(Tail(rows), enrich)
         IN  IF is_attack_row(entry)
             THEN <<entry_data(entry, enrich)>> \o rest
             ELSE rest

\* the `mappings` list the loop over the rows builds
RECURSIVE row_mappings(_, _)
row_mappings(rows, enrich) ==
    IF rows = <<>> THEN <<>>
    ELSE LET entry == Head(rows)
             rest == row_mappings(Tail(rows), enrich)
         IN  IF is_attack_row(entry) /\ row_d3fend(entry, enrich) # <<>>
             THEN <<entry_data(entry, enrich)>> \o rest
             ELSE rest

\* the position of attack_id `key` in `acc` (0: not there)
group_index(acc, key) ==
    IF \E i \in 1..Len(acc) : acc[i].attack_id = key
    THEN CHOOSE i \in 1..Len(acc) : acc[i].attack_id = key
    ELSE 0

\* `grouped`: a dict in insertion order, the first row's name, the lists joined
RECURSIVE group_into(_, _)
group_into(ms, acc) ==
    IF ms = <<>> THEN acc
    ELSE LET e == Head(ms)
             i == group_index(acc, e.attack_id)
         IN  IF i = 0
             THEN group_into(Tail(ms), Append(acc, e))
             ELSE group_into(Tail(ms),
                             [acc EXCEPT ![i].d3fend = @ \o e.d3fend])

grouped(ms) == group_into(ms, <<>>)

\* dedupe by id, the first occurrence kept, the order preserved
RECURSIVE dedupe_from(_, _)
dedupe_from(l, seen) ==
    IF l = <<>> THEN <<>>
    ELSE IF Head(l).id # <<>> /\ Head(l).id \notin seen
         THEN <<Head(l)>> \o dedupe_from(Tail(l), seen \cup {Head(l).id})
         ELSE dedupe_from(Tail(l), seen)

\* a mutation of dedupe: nothing is dropped
dedupe_keep_all(l) == l

dedupe(l) == dedupe_from(l, {})

dedupe_groups(gs) == [i \in 1..Len(gs) |-> [gs[i] EXCEPT !.d3fend = dedupe(@)]]

\* what the two scripts hold in `grouped` after their grouping loop
script_grouped(raw) == grouped(row_mappings(bindings(raw), FALSE))

\* `final` of generate_search_index.py; the rows generate_search_db.py inserts
script_final(raw) == dedupe_groups(script_grouped(raw))

\* `final_mappings` of the normalizer in app.load_mappings
app_grouped(raw) == grouped(row_mappings(bindings(raw), TRUE))
app_final(raw) == dedupe_groups(app_grouped(raw))

(***************************************************************************)
(* The persisted index.  The SQLite file holds `attacks` in rowid order,   *)
(* each with its `d3fend` rows in id order; a file is absent, or there     *)
(* with its tables.  The JSON file is absent, open for writing with no     *)
(* complete document in it yet ("partial"), or written.                    *)
(***************************************************************************)
NoFile == [state |-> "absent", rows |-> <<>>]
DbFile(rows) == [state |-> "ready", rows |-> rows]
JsonFile(rows) == [state |-> "ok", rows |-> rows]
PartialFile == [state |-> "partial", rows |-> <<>>]

exists(file) == file.state # "absent"

Idle == [script |-> "none", pc |-> "idle", grouped |-> <<>>]

(***************************************************************************)
(* scripts/generate_search_db.py, main(): one action for each stretch of   *)
(* it between two points at which another process can look at the file.    *)
(***************************************************************************)
\* a mutation of GenDbParse: the old file is removed before the document is read
GenDbParseRemoveFirst ==
    /\ gen.pc = "idle"
    /\ IF MAPPINGS_FILE.shape = "missing"
       THEN gen' = [script |-> "db", pc |-> "aborted", grouped |-> <<>>]
       ELSE IF parse_raises(MAPPINGS_FILE)
       THEN gen' = [script |-> "db", pc |-> "failed", grouped |-> <<>>]
       ELSE gen' = [script |-> "db", pc |-> "grouped",
                    grouped |-> script_grouped(MAPPINGS_FILE)]
    /\ SEARCH_DB' = NoFile
    /\ UNCHANGED <<MAPPINGS_FILE, SEARCH_INDEX_FILE, prior, final_mappings,
                   mappings, mappings_progress, resp,
                   load_pc>>

\* lines 34-103: read, parse, normalize and group, all in memory
GenDbParse ==
    /\ gen.pc = "idle"
    /\ IF MAPPINGS_FILE.shape = "missing"
       THEN gen' = [script |-> "db", pc |-> "aborted", grouped |-> <<>>]
       ELSE IF parse_raises(MAPPINGS_FILE)
       THEN gen' = [script |-> "db", pc |-> "failed", grouped |-> <<>>]
       ELSE gen' = [script |-> "db", pc |-> "grouped",
                    grouped |-> script_grouped(MAPPINGS_FILE)]
    /\ UNCHANGED <<MAPPINGS_FILE, SEARCH_DB, SEARCH_INDEX_FILE, prior,
                   final_mappings, mappings, mappings_progress, resp, load_pc>>

\* lines 106-108: os.remove(OUT_DB)
GenDbRemove ==
    /\ gen.script = "db" /\ gen.pc = "grouped"
    /\ gen' = [gen EXCEPT !.pc = "removed"]
    /\ SEARCH_DB' = NoFile
    /\ UNCHANGED <<MAPPINGS_FILE, SEARCH_INDEX_FILE, prior, final_mappings,
                   mappings, mappings_progress, resp,
                   load_pc>>

\* lines 109-115: connect, CREATE TABLE, CREATE INDEX (each committed as it runs)
GenDbCreate ==
    /\ gen.script = "db" /\ gen.pc = "removed"
    /\ gen' = [gen EXCEPT !.pc = "created"]
    /\ SEARCH_DB' = DbFile(<<>>)
    /\ UNCHANGED <<MAPPINGS_FILE, SEARCH_INDEX_FILE, prior, final_mappings,
                   mappings, mappings_progress, resp,
                   load_pc>>

\* lines 117-137: the INSERTs of one transaction, and its commit
GenDbCommit ==
    /\ gen.script = "db" /\ gen.pc = "created"
    /\ gen' = [gen EXCEPT !.pc = "done"]
    /\ SEARCH_DB' = DbFile(dedupe_groups(gen.grouped))
    /\ UNCHANGED <<MAPPINGS_FILE, SEARCH_INDEX_FILE, prior, final_mappings,
                   mappings, mappings_progress, resp,
                   load_pc>>

(***************************************************************************)
(* scripts/generate_search_index.py, main().                               *)
(***************************************************************************)
\* lines 42-124: read, parse, normalize, group and dedupe, all in memory
GenIndexParse ==
    /\ gen.pc = "idle"
    /\ IF MAPPINGS_FILE.shape = "missing"
       THEN gen' = [script |-> "index", pc |-> "aborted", grouped |-> <<>>]
       ELSE IF parse_raises(MAPPINGS_FILE)
       THEN gen' = [script |-> "index", pc |-> "failed", grouped |-> <<>>]
       ELSE gen' = [script |-> "index", pc |-> "grouped",
                    grouped |-> script_grouped(MAPPINGS_FILE)]
    /\ UNCHANGED <<MAPPINGS_FILE, SEARCH_DB, SEARCH_INDEX_FILE, prior,
                   final_mappings, mappings, mappings_progress, resp, load_pc>>

\* lines 126-127: open(OUT_FILE, "w") truncates the file
GenIndexOpen ==
    /\ gen.script = "index" /\ gen.pc = "grouped"
    /\ gen' = [gen EXCEPT !.pc = "opened"]
    /\ SEARCH_INDEX_FILE' = PartialFile
    /\ UNCHANGED <<MAPPINGS_FILE, SEARCH_DB, prior, final_mappings,
                   mappings, mappings_progress, resp,
                   load_pc>>

\* line 128: json.dump(final, of), and the file is closed
GenIndexDump ==
    /\ gen.script = "index" /\ gen.pc = "opened"
    /\ gen' = [gen EXCEPT !.pc = "done"]
    /\ SEARCH_INDEX_FILE' = JsonFile(dedupe_groups(gen.grouped))
    /\ UNCHANGED <<MAPPINGS_FILE, SEARCH_DB, prior, final_mappings,
                   mappings, mappings_progress, resp,
                   load_pc>>

(***************************************************************************)
(* The normalizer that follows `return []` in app.load_mappings (lines     *)
(* 109-288).  No call reaches it; it is applied here to the document as    *)
(* the function of raw_data that it is.                                    *)
(***************************************************************************)
NotParsed == [state |-> "none", grouped |-> <<>>, rows |-> <<>>]

LoadMappingsParse ==
    /\ final_mappings.state = "none"
    /\ MAPPINGS_FILE.shape # "missing"
    /\ final_mappings' =
           IF parse_raises(MAPPINGS_FILE)
           THEN [state |-> "raised", grouped |-> <<>>, rows |-> <<>>]
           ELSE [state |-> "ok", grouped |-> app_grouped(MAPPINGS_FILE),
                 rows |-> app_final(MAPPINGS_FILE)]
    /\ UNCHANGED <<MAPPINGS_FILE, SEARCH_DB, SEARCH_INDEX_FILE, prior, gen,
                   mappings, mappings_progress, resp,
                   load_pc>>

(***************************************************************************)
(* The documents the normalizer is run on.                                 *)
(***************************************************************************)
Row(id, uri, label, tactic, tech, tech_label, art, art_label) ==
    RowObj([f \in Fields |->
        CASE f = "off_tech_id" -> id
          [] f = "off_tech" -> uri
          [] f = "off_tech_label" -> label
          [] f = "def_tactic" -> tactic
          [] f = "def_tech" -> tech
          [] f = "def_tech_label" -> tech_label
          [] f = "def_artifact" -> art
          [] f = "def_artifact_label" -> art_label])

B(s) == Bind(Str(s))
D(s) == Direct(Str(s))

\* T1566, binding style: a technique, then the tactic Detect
RowPhishing ==
    Row(B(<<"T","1","5","6","6">>), Absent, B(<<"P","h","i","s","h","i","n","g">>), B(<<"u","#","t","a","0","1">>),
        B(<<"u","#","D","3","-","N","T","A">>), B(<<"N","T","A">>), B(<<"u","#","D","e","t","e","c","t">>), B(<<"D","e","t","e","c","t">>))
\* T1566 again, from the URI, unnamed: D3-NTA again (by its label), then Harden
RowPhishingAgain ==
    Row(Absent, B(<<"u","#","T","1","5","6","6">>), Absent, Absent,
        D(<<"D","3","-","N","T","A">>), Absent, B(<<"u","#","H","a","r","d","e","n">>), B(<<"h","a","r","d","e","n">>))
\* T1566.001 to be stripped and uppercased, a blank name, one id in both fields
RowSpearBlank ==
    Row(D(<<" ","t","1","5","6","6",".","0","0","1"," ">>), Absent, D(<<" "," ">>), D(<<" ","t","a","0","2"," ">>),
        B(<<"u","#","D","3","-","N","T","A">>), B(<<"D","3","-","N","T","A">>), B(<<"v","#","D","3","-","N","T","A"," ">>), B(<<"N","T","A">>))
\* T1566.001 with a name that needs escaping
RowSpear ==
    Row(B(<<"T","1","5","6","6",".","0","0","1">>), Absent, B(<<"S","p","e","a","r"," ","<","b",">">>), Absent,
        B(<<"u","#","E","v","i","c","t">>), B(<<"E","v","i","c","t">>), B(<<"u","#","D","3","-","F","A">>), B(<<"F","i","l","e"," ","&"," ","'","A","'">>))
\* not an ATT&CK subject
RowMitigation ==
    Row(B(<<"M","1">>), Absent, B(<<"M","i","t","i","g","a","t","i","o","n">>), Absent,
        B(<<"u","#","D","3","-","N","T","A">>), B(<<"N","T","A">>), Absent, Absent)
\* off_tech_id of the wrong type
RowNumId ==
    Row(Direct(Num), B(<<"u","#","T","1","5","6","6">>), B(<<"P","h","i","s","h","i","n","g">>), Absent,
        B(<<"u","#","D","3","-","N","T","A">>), B(<<"N","T","A">>), Absent, Absent)
\* fields that are objects without "value", a null inside a binding
RowObjFields ==
    Row(Bind(None), B(<<"u","#","T","1","2","3","4">>), Direct(Obj), Direct(Obj),
        Direct(Obj), B(<<"D","3","-","X">>), Direct(Num), Direct(Num))
\* a technique with no countermeasure
RowNoDefense ==
    Row(B(<<"T","1","2","3","4">>), Absent, B(<<"B","a","r","e">>), B(<<"u","#","t","a","0","1">>),
        Absent, B(<<"N","T","A">>), Direct(Num), Absent)
\* starts with T and is no ATT&CK id
RowTactic ==
    Row(B(<<"t","a","0","1">>), Absent, Absent, Absent,
        B(<<"u","#","D","3","-","X">>), Absent, Absent, Absent)
\* a tactic by name whose id is not its name
RowRestore ==
    Row(B(<<"T","1","2","3","4">>), Absent, B(<<"O","t","h","e","r">>), Absent,
        B(<<"u","#","D","3","-","X">>), B(<<"X">>), B(<<"u","#","D","3","-","R">>), B(<<" ","R","e","s","t","o","r","e"," ">>))

BuildRows ==
    {RowPhishing, RowPhishingAgain, RowSpearBlank, RowSpear, RowMitigation,
     RowNumId, RowObjFields, RowNoDefense, RowTactic, RowRestore,
     RowJunk, RowNull}

SeqsUpTo(S, n) == UNION {[1..k -> S] : k \in 0..n}

BuildDocs ==
    {Doc(shape, rows) : shape \in {"sparql", "uuid"}, rows \in SeqsUpTo(BuildRows, MaxRows)}
    \cup {Doc(shape, <<>>) : shape \in {"invalid", "array", "badbindings", "missing"}}

\* the index of an earlier run, persisted before this one
OldDoc == Doc("sparql", <<RowPhishing, RowSpear>>)

Priors ==
    {[db |-> NoFile, idx |-> NoFile],
     [db |-> DbFile(script_final(OldDoc)), idx |-> JsonFile(script_final(OldDoc))]}

NoResp == [kind |-> "none"]

\* app.py lines 56-61
InitProgress ==
    [phase |-> "idle", percent |-> 0, message |-> "Initializing", done |-> FALSE]

InitBuild ==
    /\ MAPPINGS_FILE \in BuildDocs
    /\ prior \in Priors
    /\ SEARCH_DB = prior.db
    /\ SEARCH_INDEX_FILE = prior.idx
    /\ gen = Idle
    /\ final_mappings = NotParsed
    /\ mappings = <<>>
    /\ mappings_progress = InitProgress
    /\ resp = NoResp
    /\ load_pc = "idle"

NextBuild ==
    \/ GenDbParse
    \/ GenDbRemove
    \/ GenDbCreate
    \/ GenDbCommit
    \/ GenIndexParse
    \/ GenIndexOpen
    \/ GenIndexDump
    \/ LoadMappingsParse

\* The normalizer and the two generator scripts, run once on a document.
SpecBuild == InitBuild /\ [][NextBuild]_vars

(***************************************************************************)
(* Claims about the normalizer, checked under SpecBuild.                   *)
(***************************************************************************)
NoDupIds(l) == \A i, j \in 1..Len(l) : i # j => l[i].id # l[j].id

HasDupIds(l) == ~NoDupIds(l)

Range(q) == {q[i] : i \in 1..Len(q)}

\* every Technique an index holds: persisted by a script, or computed by the
\* normalizer of app.load_mappings
IndexedTechniques ==
    Range(SEARCH_DB.rows) \cup Range(SEARCH_INDEX_FILE.rows) \cup Range(final_mappings.rows)

\* C1 (dedup invariant): in every index the normalizer produced, from any
\* document, no Technique lists two countermeasures with the same id.
C1_DedupInvariant == \A t \in IndexedTechniques : NoDupIds(t.d3fend)

\* C1's case: a script finished, and the rows it grouped under one attackId
\* repeated a countermeasure id before the dedupe.
C1_Witness ==
    /\ gen.pc = "done"
    /\ \E i \in 1..Len(gen.grouped) : HasDupIds(gen.grouped[i].d3fend)
    /\ \E t \in IndexedTechniques : Len(t.d3fend) >= 2

\* the Techniques of the index this run built
BuiltTechniques ==
    (IF gen.pc = "done" /\ gen.script = "db" THEN Range(SEARCH_DB.rows) ELSE {})
    \cup (IF gen.pc = "done" /\ gen.script = "index"
          THEN Range(SEARCH_INDEX_FILE.rows) ELSE {})
    \cup Range(final_mappings.rows)

TacticsFirst(l) == \A i, j \in 1..Len(l) : i < j /\ preferred(l[j]) => preferred(l[i])

\* C2 (tactic-first ordering): in every Technique of the final index, each
\* countermeasure of kind tactic with a canonical tactic name comes before
\* every other countermeasure.
C2_TacticFirst == \A t \in BuiltTechniques : TacticsFirst(t.d3fend)

\* a row from which a Technique derives
derives(row) == row.dict /\ is_attack_row(row) /\ row_d3fend(row, FALSE) # <<>>

\* C8 (row-level tolerance): a document of a recognized shape is built to the
\* end whatever its rows are, and the index holds a Technique for every row
\* from which one derives.
C8_RowTolerance ==
    MAPPINGS_FILE.shape \in {"sparql", "uuid"} =>
        /\ gen.pc # "failed"
        /\ final_mappings.state # "raised"
        /\ \A i \in 1..Len(MAPPINGS_FILE.rows) :
               LET row == MAPPINGS_FILE.rows[i]
               IN  derives(row) =>
                       /\ gen.pc = "done" =>
                              \E u \in BuiltTechniques :
                                  u.attack_id = off_tech_id(row)
                       /\ final_mappings.state = "ok" =>
                              \E u \in Range(final_mappings.rows) :
                                  u.attack_id = off_tech_id(row)

Malformed(raw) == raw.shape \in {"invalid", "array", "badbindings"}

group_names(key) ==
    LET ms == row_mappings(bindings(MAPPINGS_FILE), FALSE)
        of_key == SelectSeq(ms, LAMBDA e : e.attack_id = key)
    IN  [i \in 1..Len(of_key) |-> of_key[i].attack_name]

RECURSIVE first_non_empty(_)
first_non_empty(names) ==
    IF names = <<>> THEN <<>>
    ELSE IF Head(names) # <<>> THEN Head(names)
    ELSE first_non_empty(Tail(names))

\* C11 (attackName selection): the attackName of every Technique this run
\* built is the first non-empty name among the rows of its attackId, in row
\* order; an empty or blank name on the first row does not stand in the way of
\* a later row's name.
C11_AttackNameSelection ==
    \A t \in BuiltTechniques :
        t.attack_name = first_non_empty(group_names(t.attack_id))

\* T followed by four digits, then nothing or a dot and three digits
IsAttackId(s) ==
    /\ Len(s) \in {5, 9}
    /\ s[1] = "T"
    /\ \A k \in 2..5 : s[k] \in Digits
    /\ Len(s) = 9 => s[6] = "." /\ \A k \in 7..9 : s[k] \in Digits

UniqueIds(rows) ==
    \A i, j \in 1..Len(rows) : i # j => rows[i].attack_id # rows[j].attack_id

\* the indexes this run built, each as the list it is
BuiltIndexes ==
    {final_mappings.rows}
    \cup (IF gen.pc = "done" /\ gen.script = "db" THEN {SEARCH_DB.rows} ELSE {})
    \cup (IF gen.pc = "done" /\ gen.script = "index"
          THEN {SEARCH_INDEX_FILE.rows} ELSE {})

\* C12 (attackId key invariant): every Technique of an index this run built
\* has an attackId of the form T#### or T####.### in upper case, and no two
\* Techniques of one index share an attackId.
C12_AttackIdKey ==
    \A rows \in BuiltIndexes :
        /\ UniqueIds(rows)
        /\ \A i \in 1..Len(rows) : IsAttackId(rows[i].attack_id)

\* the rows of the document that name the attackId `key`
rows_of(key) ==
    LET rows == bindings(MAPPINGS_FILE)
    IN  {rows[i] : i \in {k \in 1..Len(rows) : is_attack_row(rows[k])
                                                /\ off_tech_id(rows[k]) = key}}

\* C13 (non-empty invariant): every Technique of an index this run built has
\* at least one countermeasure, and it comes, with its name, from rows from
\* which a countermeasure id derives: a row without one creates no Technique
\* and gives none its name.
C13_NonEmpty ==
    \A t \in BuiltTechniques :
        /\ Len(t.d3fend) >= 1
        /\ \E row \in rows_of(t.attack_id) :
               /\ row_d3fend(row, FALSE) # <<>>
               /\ t.attack_name = attack_name(row)

\* C13's case: a script built an index from a document in which a row names a
\* Technique and no countermeasure, and another row maps the same Technique.
C13_Witness ==
    /\ gen.pc = "done"
    /\ \E t \in BuiltTechniques :
           \E row \in rows_of(t.attack_id) : row_d3fend(row, FALSE) = <<>>

(***************************************************************************)
(* The query engine: regular expressions, SQL, HTML escaping.              *)
(***************************************************************************)
IsDigit(c) == c \in Digits

\* the positions at which T\d{4} matches
id_starts(q) ==
    {i \in 1..(Len(q) - 4) : q[i] = "T" /\ \A k \in 1..4 : IsDigit(q[i + k])}

Min(S) == CHOOSE x \in S : \A y \in S : x <= y

\* re.search(r"T\d{4}(?:\.\d{3})?", q).group(0); <<>> when there is no match
re_search_id(q) ==
    IF id_starts(q) = {} THEN <<>>
    ELSE LET i == Min(id_starts(q))
         IN  IF /\ Len(q) >= i + 8
                /\ q[i + 5] = "."
                /\ \A k \in 6..8 : IsDigit(q[i + k])
             THEN SubSeq(q, i, i + 8)
             ELSE SubSeq(q, i, i + 4)

\* re.match(r"^T\d{4}$", qid), for a qid that re_search_id found
is_parent_id(qid) == Len(qid) = 5

\* ^qid(\.\d{3})?$ matched against an attack_id
parent_pattern_match(qid, aid) ==
    \/ aid = qid
    \/ /\ Len(aid) = Len(qid) + 4
       /\ SubSeq(aid, 1, Len(qid)) = qid
       /\ aid[Len(qid) + 1] = "."
       /\ \A k \in 2..4 : IsDigit(aid[Len(qid) + k])

\* SQLite's `s LIKE p`: % any run, _ any one character, ASCII case folded
RECURSIVE like(_, _)
like(s, p) ==
    IF p = <<>> THEN s = <<>>
    ELSE IF Head(p) = "%"
         THEN like(s, Tail(p)) \/ (s # <<>> /\ like(Tail(s), p))
         ELSE /\ s # <<>>
              /\ (Head(p) = "_" \/ upper1(Head(p)) = upper1(Head(s)))
              /\ like(Tail(s), Tail(p))

Take(l, n) == SubSeq(l, 1, IF n < Len(l) THEN n ELSE Len(l))

\* LIMIT n: a negative n is no limit
sql_limit(rows, n) == IF n < 0 THEN rows ELSE Take(rows, n)

\* ORDER BY attack_id (BINARY collation; attack_id is the primary key)
RECURSIVE insert_by_id(_, _)
insert_by_id(t, l) ==
    IF l = <<>> THEN <<t>>
    ELSE IF str_lt(t.attack_id, Head(l).attack_id) THEN <<t>> \o l
    ELSE <<Head(l)>> \o insert_by_id(t, Tail(l))

RECURSIVE order_by_id(_)
order_by_id(l) ==
    IF l = <<>> THEN <<>> ELSE insert_by_id(Head(l), order_by_id(Tail(l)))

\* markupsafe.escape
escape1(c) ==
    CASE c = "&" -> <<"&","a","m","p",";">>
      [] c = "<" -> <<"&","l","t",";">>
      [] c = ">" -> <<"&","g","t",";">>
      [] c = "'" -> <<"&","#","3","9",";">>
      [] c = "\"" -> <<"&","#","3","4",";">>
      [] OTHER -> <<c>>

RECURSIVE escape(_)
escape(s) == IF s = <<>> THEN <<>> ELSE escape1(Head(s)) \o escape(Tail(s))

(***************************************************************************)
(* app.query_db_for_search and the in-memory branch of app.search.         *)
(***************************************************************************)
\* LIMIT 500 of the name query
NameQueryLimit == 500

\* The WHERE clauses.  Every SELECT over `attacks` below is a scan in rowid
\* order, and each row comes with its d3fend rows in id order.
where_parent(t, qid) == t.attack_id = qid \/ like(t.attack_id, qid \o <<".","%">>)
where_exact(t, qid) == t.attack_id = qid
where_name_or_id(t, qname) ==
    \/ like(upper(t.attack_name), <<"%">> \o qname \o <<"%">>)
    \/ like(t.attack_id, <<"%">> \o qname \o <<"%">>)
where_memory_parent(t, qid) == parent_pattern_match(qid, t.attack_id)
where_memory_name(t, qname) == contains(upper(t.attack_name), qname)

\* query_db_for_search(q); a file that is no database raises, and [] is returned
query_db_for_search(q) ==
    IF SEARCH_DB.state # "ready" THEN <<>>
    ELSE LET qid == re_search_id(q)
         IN  IF qid # <<>>
             THEN IF is_parent_id(qid)
                  THEN SelectSeq(SEARCH_DB.rows, LAMBDA t : where_parent(t, qid))
                  ELSE SelectSeq(SEARCH_DB.rows, LAMBDA t : where_exact(t, qid))
             ELSE sql_limit(SelectSeq(SEARCH_DB.rows, LAMBDA t : where_name_or_id(t, upper(q))),
                            NameQueryLimit)

\* lines 349-360: the search over the module global `mappings`
memory_search(query) ==
    LET q == upper(strip(query))
        qid == re_search_id(q)
    IN  IF qid # <<>>
        THEN IF is_parent_id(qid)
             THEN SelectSeq(mappings, LAMBDA t : where_memory_parent(t, qid))
             ELSE SelectSeq(mappings, LAMBDA t : where_exact(t, qid))
        ELSE SelectSeq(mappings, LAMBDA t : where_memory_name(t, upper(q)))

\* lines 366-383: one entry of attack_matches
safe_item(d) ==
    [id |-> escape(d.id),
     name |-> escape(d.name),
     type |-> escape(d.type),
     tactic_id |-> IF d.tactic_id # <<>> THEN escape(d.tactic_id) ELSE <<>>,
     d3fend_id |-> IF d.d3fend_id # <<>> THEN escape(d.d3fend_id) ELSE <<>>,
     attack_ref |-> IF d.attack_ref # <<>> THEN escape(d.attack_ref) ELSE <<>>,
     url |-> escape(d.url)]

attack_match(t) ==
    [id |-> escape(t.attack_id),
     name |-> escape(IF t.attack_name # <<>> THEN t.attack_name ELSE t.attack_id),
     d3fend |-> [i \in 1..Len(t.d3fend) |-> safe_item(t.d3fend[i])]]

RECURSIVE total_d3fend(_)
total_d3fend(results) ==
    IF results = <<>> THEN 0
    ELSE Len(Head(results).d3fend) + total_d3fend(Tail(results))

\* the index a request is answered from
serving_index == IF exists(SEARCH_DB) THEN SEARCH_DB.rows ELSE mappings

\* a mutation of query_arg: the parameter is taken as it came
query_arg_unstripped(raw) == raw

\* line 340: request.args.get("q", "").strip()
query_arg(raw) == strip(raw)

\* GET /search?q=raw: app.search
search_response(raw) ==
    LET query == query_arg(raw)
        results == IF exists(SEARCH_DB) THEN query_db_for_search(query)
                   ELSE memory_search(query)
        base == [kind |-> "search", raw |-> raw, query |-> query,
                 backend |-> IF exists(SEARCH_DB) THEN "db" ELSE "memory",
                 index |-> serving_index]
    IN  IF query = <<>>
        THEN [kind |-> "search", raw |-> raw, query |-> query,
              backend |-> "none", index |-> <<>>, error |-> "EmptyQuery",
              matches |-> <<>>, attack_matches |-> <<>>, total_d3fend |-> 0]
        ELSE IF results = <<>>
        THEN [kind |-> "search", raw |-> raw, query |-> query,
              backend |-> base.backend, index |-> base.index, error |-> "NoResults",
              matches |-> <<>>, attack_matches |-> <<>>, total_d3fend |-> 0]
        ELSE [kind |-> "search", raw |-> raw, query |-> query,
              backend |-> base.backend, index |-> base.index, error |-> "none",
              matches |-> results,
              attack_matches |-> [i \in 1..Len(results) |-> attack_match(results[i])],
              total_d3fend |-> total_d3fend(results)]

(***************************************************************************)
(* app.api_attacks.                                                        *)
(***************************************************************************)
\* int(request.args.get("limit", 500)), and 500 again on a ValueError
DefaultLimit == 500

item(t) == [id |-> t.attack_id, name |-> t.attack_name]

where_id_or_name(t, q) ==
    \/ like(t.attack_id, <<"%">> \o q \o <<"%">>)
    \/ like(upper(t.attack_name), <<"%">> \o q \o <<"%">>)

\* lines 435-447: the SELECT with its LIMIT
api_attacks_db(q, limit) ==
    LET rows == IF q # <<>>
                THEN sql_limit(SelectSeq(SEARCH_DB.rows,
                                         LAMBDA t : where_id_or_name(t, q)), limit)
                ELSE sql_limit(order_by_id(SEARCH_DB.rows), limit)
    IN  [i \in 1..Len(rows) |-> item(rows[i])]

\* lines 452-460: the loop over `mappings`, which tests the limit after it appends
RECURSIVE api_attacks_loop(_, _, _, _)
api_attacks_loop(ms, q, limit, out) ==
    IF ms = <<>> THEN out
    ELSE LET tid == Head(ms).attack_id
             name == strip(Head(ms).attack_name)
             out2 == IF q = <<>> \/ contains(tid, q) \/ contains(upper(name), q)
                     THEN Append(out, [id |-> tid, name |-> name])
                     ELSE out
         IN  IF tid = <<>> THEN api_attacks_loop(Tail(ms), q, limit, out)
             ELSE IF Len(out2) >= limit THEN out2
             ELSE api_attacks_loop(Tail(ms), q, limit, out2)

\* GET /api/attacks?q=raw&limit=limit
api_attacks_response(raw, limit) ==
    LET q == upper(strip(raw))
    IN  [kind |-> "attacks", raw |-> raw, q |-> q, limit |-> limit,
         backend |-> IF SEARCH_DB.state = "ready" THEN "db" ELSE "memory",
         index |-> IF SEARCH_DB.state = "ready" THEN SEARCH_DB.rows ELSE mappings,
         out |-> IF SEARCH_DB.state = "ready" THEN api_attacks_db(q, limit)
                 ELSE api_attacks_loop(mappings, q, limit, <<>>)]

(***************************************************************************)
(* app.load_mappings, lines 65-108: what it returns and what it leaves in  *)
(* mappings_progress.                                                      *)
(***************************************************************************)
Progress(phase, percent, message, done) ==
    [phase |-> phase, percent |-> percent, message |-> message, done |-> done]

load_mappings ==
    IF SEARCH_DB.state = "ready"
    THEN [ret |-> order_by_id(SEARCH_DB.rows),
          progress |-> Progress("loaded_db", 100, "Loaded search DB", TRUE)]
    ELSE IF SEARCH_INDEX_FILE.state = "ok"
    THEN [ret |-> SEARCH_INDEX_FILE.rows,
          progress |-> Progress("loading_index", 100,
                                "Loaded compact search index", TRUE)]
    ELSE [ret |-> <<>>,
          progress |-> Progress("missing", 0,
              "No search DB or index found; run scripts/generate_search_db.py",
              FALSE)]

(***************************************************************************)
(* The requests the app serves.                                            *)
(***************************************************************************)
Queries ==
    {<<"T","1","5","6","6">>, <<" ","t","1","5","6","6"," ">>, <<"x"," ","t","1","5","6","6">>, <<"T","1","5","6","6",".","0","0","1">>, <<"t","1","5","6","6",".","0","0","1">>,
     <<"p","h","i","s","h">>, <<"S","P","E","A","R"," ","<","B",">">>, <<"T","1","5">>, <<"%">>, <<"z","z","z">>, <<>>, <<" "," ">>}

Filters == {<<>>, <<" ","t","1","5","6","6">>, <<"P","h","i","s","h">>, <<"z","z","z">>}

Limits == {-1, 0, 1, DefaultLimit}

Search ==
    /\ \E raw \in Queries : resp' = search_response(raw)
    /\ UNCHANGED <<MAPPINGS_FILE, SEARCH_DB, SEARCH_INDEX_FILE, prior, gen,
                   final_mappings, mappings, mappings_progress,
                   load_pc>>

ApiAttacks ==
    /\ \E raw \in Filters, limit \in Limits : resp' = api_attacks_response(raw, limit)
    /\ UNCHANGED <<MAPPINGS_FILE, SEARCH_DB, SEARCH_INDEX_FILE, prior, gen,
                   final_mappings, mappings, mappings_progress,
                   load_pc>>

\* load_mappings() is called and the list it returns becomes `mappings` ("if
\* a compact JSON was loaded elsewhere", app.py line 348)
LoadMappings ==
    /\ mappings' = load_mappings.ret
    /\ mappings_progress' = load_mappings.progress
    /\ UNCHANGED <<MAPPINGS_FILE, SEARCH_DB, SEARCH_INDEX_FILE, prior, gen,
                   final_mappings, resp, load_pc>>

\* the documents behind the indexes that are queried
RowLink ==
    Row(B(<<"T","1","5","6","6",".","0","0","2">>), Absent, B(<<"L","i","n","k">>), Absent,
        B(<<"u","#","D","3","-","N","T","A">>), B(<<"N","T","A">>), Absent, Absent)
RowSee ==
    Row(B(<<"T","1","2","0","4">>), Absent, B(<<"s","e","e"," ","t","1","5","6","6",".","0","0","1">>), Absent,
        B(<<"u","#","D","e","t","e","c","t">>), B(<<"D","e","t","e","c","t">>), B(<<"u","#","D","3","-","X">>), B(<<"<","X",">">>))

QueryRows == {RowPhishing, RowSpear, RowLink, RowSee}

Injective(q) == \A i, j \in 1..Len(q) : i # j => q[i] # q[j]

QueryDocs ==
    {Doc("sparql", rows) : rows \in {q \in SeqsUpTo(QueryRows, MaxIndexRows) : Injective(q)}}

\* the index files the app starts with: what the scripts wrote from a document,
\* the SQLite file possibly not a database at all
Backends ==
    {[db |-> "ready", idx |-> "absent"], [db |-> "absent", idx |-> "ok"],
     [db |-> "absent", idx |-> "absent"], [db |-> "corrupt", idx |-> "ok"]}

InitQuery ==
    /\ MAPPINGS_FILE \in QueryDocs
    /\ \E b \in Backends :
        /\ SEARCH_DB = IF b.db = "ready" THEN DbFile(script_final(MAPPINGS_FILE))
                       ELSE [state |-> b.db, rows |-> <<>>]
        /\ SEARCH_INDEX_FILE = IF b.idx = "ok"
                               THEN JsonFile(script_final(MAPPINGS_FILE))
                               ELSE NoFile
    /\ prior = [db |-> SEARCH_DB, idx |-> SEARCH_INDEX_FILE]
    /\ gen = [script |-> "none", pc |-> "done", grouped |-> <<>>]
    /\ final_mappings = NotParsed
    /\ mappings = <<>>
    /\ mappings_progress = InitProgress
    /\ resp = NoResp
    /\ load_pc = "idle"

NextQuery == Search \/ ApiAttacks \/ LoadMappings

\* The app serving requests from an index the scripts built.
SpecQuery == InitQuery /\ [][NextQuery]_vars

(***************************************************************************)
(* Claims about the query engine, checked under SpecQuery.                 *)
(***************************************************************************)
\* the ATT&CK id a query asks for: the first T#### or T####.### of its trimmed,
\* uppercased text (<<>>: none)
asked_id(raw) == re_search_id(upper(strip(raw)))

Answered == resp.kind = "search" /\ resp.error # "EmptyQuery"

MatchedIds == {resp.matches[i].attack_id : i \in 1..Len(resp.matches)}

\* C4 (parent expansion): a query whose trimmed, uppercased text holds a
\* T#### with no .### suffix is answered with exactly the Techniques of the
\* index whose attackId is that T#### or that T#### followed by .###.
C4_ParentExpansion ==
    Answered /\ Len(asked_id(resp.raw)) = 5 =>
        MatchedIds = {t.attack_id : t \in
                        {u \in Range(resp.index) :
                            parent_pattern_match(asked_id(resp.raw), u.attack_id)}}

\* C5 (exact sub-technique): a query in which a T####.### is found is
\* answered with the Technique of that attackId and no other.
C5_ExactSubTechnique ==
    Answered /\ Len(asked_id(resp.raw)) = 9 =>
        MatchedIds = {t.attack_id : t \in
                        {u \in Range(resp.index) : u.attack_id = asked_id(resp.raw)}}

\* C6 (name fallback): a non-empty query with no ID-shaped substring is
\* answered with the Techniques whose attackName contains the query, case
\* ignored, all of them and only them, in index order.
C6_NameFallback ==
    Answered /\ asked_id(resp.raw) = <<>> =>
        resp.matches =
            SelectSeq(resp.index,
                      LAMBDA t : contains(upper(t.attack_name), upper(resp.query)))

\* s is HTML-entity-escaped text: no <, >, ' or " in it, and every & starts
\* one of the five entities
IsEscaped(s) ==
    \A i \in 1..Len(s) :
        /\ s[i] \notin {"<", ">", "'", "\""}
        /\ s[i] = "&" =>
             \E e \in {<<"&","a","m","p",";">>, <<"&","l","t",";">>, <<"&","g","t",";">>, <<"&","#","3","9",";">>, <<"&","#","3","4",";">>} :
                 /\ i + Len(e) - 1 <= Len(s)
                 /\ SubSeq(s, i, i + Len(e) - 1) = e

d3fend_strings(d) ==
    {d.id, d.name, d.type, d.tactic_id, d.d3fend_id, d.attack_ref, d.url}

\* the technique names and countermeasure fields a search response carries,
\* in "attack_matches" and in "matches"
EmittedStrings ==
    UNION {{resp.attack_matches[i].name}
           \cup UNION {d3fend_strings(resp.attack_matches[i].d3fend[j]) :
                         j \in 1..Len(resp.attack_matches[i].d3fend)} :
              i \in 1..Len(resp.attack_matches)}
    \cup
    UNION {{resp.matches[i].attack_name}
           \cup UNION {d3fend_strings(resp.matches[i].d3fend[j]) :
                         j \in 1..Len(resp.matches[i].d3fend)} :
              i \in 1..Len(resp.matches)}

\* C7 (output sanitization): every technique name and countermeasure field
\* of a search response is HTML-entity-escaped, and the response carries no
\* unescaped copy of a stored string.
C7_OutputSanitization ==
    resp.kind = "search" => \A s \in EmittedStrings : IsEscaped(s)

Max0(n) == IF n < 0 THEN 0 ELSE n

\* C10 (listTechniques): for any filter and any limit, zero and negative
\* ones too, the answer is the first `limit` Techniques of the index, in
\* index order, whose id or name contains the filter, case ignored.
C10_ListTechniques ==
    resp.kind = "attacks" =>
        /\ Len(resp.out) <= Max0(resp.limit)
        /\ resp.out =
             LET hits == SelectSeq(resp.index,
                            LAMBDA t : \/ contains(upper(t.attack_id), resp.q)
                                       \/ contains(upper(t.attack_name), resp.q))
                 first == Take(hits, Max0(resp.limit))
             IN  [i \in 1..Len(first) |-> item(first[i])]

\* the Technique matches the query as the search is specified: by the id the
\* trimmed, uppercased query holds, else by its name
matches_query(t, raw) ==
    LET qid == asked_id(raw)
    IN  IF Len(qid) = 5 THEN parent_pattern_match(qid, t.attack_id)
        ELSE IF Len(qid) = 9 THEN t.attack_id = qid
        ELSE contains(upper(t.attack_name), upper(strip(raw)))

RECURSIVE SumOfLens(_)
SumOfLens(ts) ==
    IF ts = <<>> THEN 0 ELSE Len(Head(ts).d3fend) + SumOfLens(Tail(ts))

\* C14 (NoResults): a non-empty query fails with NoResults exactly when no
\* Technique of the index matches it; when one does, the search succeeds with
\* a non-empty list and a total that is the sum of the matched Techniques'
\* countermeasure counts.
C14_NoResults ==
    Answered =>
        LET hit == \E t \in Range(resp.index) : matches_query(t, resp.raw)
        IN  /\ resp.error = "NoResults" <=> ~hit
            /\ hit => /\ resp.error = "none"
                      /\ resp.matches # <<>>
                      /\ resp.total_d3fend = SumOfLens(resp.matches)

IsBlank(s) == \A i \in 1..Len(s) : IsSpace(s[i])

\* C15 (empty query): a query that is empty or blank fails with EmptyQuery,
\* whatever the index holds and whichever backend serves, and nothing of the
\* index is in the answer.
C15_EmptyQuery ==
    resp.kind = "search" /\ IsBlank(resp.raw) =>
        /\ resp.error = "EmptyQuery"
        /\ resp.backend = "none"
        /\ resp.matches = <<>> /\ resp.attack_matches = <<>>

\* C15's case: a blank, non-empty query was answered while the database held
\* Techniques.
C15_Witness ==
    /\ resp.kind = "search"
    /\ resp.raw # <<>> /\ IsBlank(resp.raw)
    /\ resp.error = "EmptyQuery"
    /\ SEARCH_DB.state = "ready" /\ SEARCH_DB.rows # <<>>

\* what a result list says: each Technique with its countermeasure ids in order
techniques(results) ==
    {[attack_id |-> r.attack_id,
      d3fend |-> [i \in 1..Len(r.d3fend) |-> r.d3fend[i].id]] : r \in Range(results)}

\* C16 (backend equivalence): when the database and the in-memory list hold
\* the same Techniques, the SQLite search and the in-memory search answer a
\* non-empty query with the same Techniques, each with the same countermeasure
\* ids in the same order.
C16_BackendEquivalence ==
    Answered /\ SEARCH_DB.state = "ready" /\ Range(mappings) = Range(SEARCH_DB.rows) =>
        techniques(query_db_for_search(resp.query)) = techniques(memory_search(resp.query))

(***************************************************************************)
(* A rebuild while the app serves: a generator script runs, step by step,  *)
(* against the files the app answers from.                                 *)
(***************************************************************************)
SwapDocs ==
    {OldDoc, Doc("sparql", <<RowPhishing, RowLink>>), Doc("invalid", <<>>)}

\* the app serves the old index from the SQLite file, or from the JSON file
\* it loaded into `mappings`
SwapPriors ==
    {[db |-> DbFile(script_final(OldDoc)), idx |-> NoFile],
     [db |-> NoFile, idx |-> JsonFile(script_final(OldDoc))]}

InitSwap ==
    /\ MAPPINGS_FILE \in SwapDocs
    /\ prior \in SwapPriors
    /\ SEARCH_DB = prior.db
    /\ SEARCH_INDEX_FILE = prior.idx
    /\ gen = Idle
    /\ final_mappings = NotParsed
    /\ mappings = IF exists(prior.db) THEN <<>> ELSE prior.idx.rows
    /\ mappings_progress =
           IF exists(prior.db) THEN InitProgress
           ELSE Progress("loading_index", 100, "Loaded compact search index", TRUE)
    /\ resp = NoResp
    /\ load_pc = "idle"

NextSwap ==
    \/ GenDbParse
    \/ GenDbRemove
    \/ GenDbCreate
    \/ GenDbCommit
    \/ GenIndexParse
    \/ GenIndexOpen
    \/ GenIndexDump
    \/ Search
    \/ LoadMappings

\* The app answering searches while one generator script rebuilds the index.
SpecSwap == InitSwap /\ [][NextSwap]_vars

OldIndex == IF exists(prior.db) THEN prior.db.rows ELSE prior.idx.rows

\* the index the running rebuild is to produce (the old one, if it cannot)
NewIndex ==
    IF parse_raises(MAPPINGS_FILE) THEN OldIndex ELSE script_final(MAPPINGS_FILE)

InIndex(rows, aid) == \E i \in 1..Len(rows) : rows[i].attack_id = aid

\* C3 (atomic index swap): a search served while a rebuild runs is answered
\* from the complete old index or from the complete new one, so a Technique
\* that both hold is never answered with NoResults.
C3_AtomicSwap ==
    Answered =>
        /\ resp.index \in {OldIndex, NewIndex}
        /\ \A aid \in {<<"T","1","5","6","6">>} :
               /\ resp.raw = aid
               /\ InIndex(OldIndex, aid)
               /\ InIndex(NewIndex, aid)
               => resp.error = "none"

(***************************************************************************)
(* app.load_mappings, lines 65-108, update by update of mappings_progress: *)
(* between two updates another thread can read the dict (the               *)
(* /mappings_progress route) and a generator script can change the files.  *)
(***************************************************************************)
\* lines 69-95: the database is there and is read, or it is there and reading
\* it raises, or it is not there
LoadDb ==
    /\ load_pc = "idle"
    /\ IF exists(SEARCH_DB)
       THEN IF SEARCH_DB.state = "ready"
            THEN /\ mappings' = order_by_id(SEARCH_DB.rows)
                 /\ mappings_progress' =
                        Progress("loaded_db", 100, "Loaded search DB", TRUE)
                 /\ load_pc' = "idle"
            ELSE /\ mappings_progress' =
                        Progress("db_failed", 0,
                            "Failed to load search DB; ensure it's present and valid",
                            FALSE)
                 /\ load_pc' = "index"
                 /\ UNCHANGED mappings
       ELSE /\ load_pc' = "index"
            /\ UNCHANGED <<mappings, mappings_progress>>
    /\ UNCHANGED <<MAPPINGS_FILE, SEARCH_DB, SEARCH_INDEX_FILE, prior, gen,
                   final_mappings, resp>>

\* lines 98-100: the compact index is there, and is announced as loaded
LoadIndexMark ==
    /\ load_pc = "index"
    /\ IF exists(SEARCH_INDEX_FILE)
       THEN /\ mappings_progress' =
                   Progress("loading_index", 100, "Loaded compact search index", TRUE)
            /\ load_pc' = "read"
       ELSE /\ load_pc' = "missing"
            /\ UNCHANGED mappings_progress
    /\ UNCHANGED <<MAPPINGS_FILE, SEARCH_DB, SEARCH_INDEX_FILE, prior, gen,
                   final_mappings, mappings, resp>>

\* a mutation of LoadIndexRead: the handler of a failed read changes the phase
\* and the message only, and the function returns from it
LoadIndexReadReturns ==
    /\ load_pc = "read"
    /\ IF SEARCH_INDEX_FILE.state = "ok"
       THEN /\ mappings' = SEARCH_INDEX_FILE.rows
            /\ UNCHANGED mappings_progress
       ELSE /\ mappings_progress' =
                   [mappings_progress EXCEPT
                       !.phase = "index_failed",
                       !.message = "Failed to load compact index; create search DB"]
            /\ mappings' = <<>>
    /\ load_pc' = "idle"
    /\ UNCHANGED <<MAPPINGS_FILE, SEARCH_DB, SEARCH_INDEX_FILE, prior, gen,
                   final_mappings, resp>>

\* lines 101-104: json.load returns the list, or the read raises
LoadIndexRead ==
    /\ load_pc = "read"
    /\ IF SEARCH_INDEX_FILE.state = "ok"
       THEN /\ mappings' = SEARCH_INDEX_FILE.rows
            /\ load_pc' = "idle"
            /\ UNCHANGED mappings_progress
       ELSE /\ mappings_progress' =
                   Progress("index_failed", 0,
                       "Failed to load compact index; create search DB", FALSE)
            /\ load_pc' = "missing"
            /\ UNCHANGED mappings
    /\ UNCHANGED <<MAPPINGS_FILE, SEARCH_DB, SEARCH_INDEX_FILE, prior, gen,
                   final_mappings, resp>>

\* lines 107-108: nothing could be loaded
LoadMissing ==
    /\ load_pc = "missing"
    /\ mappings_progress' =
           Progress("missing", 0,
               "No search DB or index found; run scripts/generate_search_db.py",
               FALSE)
    /\ mappings' = <<>>
    /\ load_pc' = "idle"
    /\ UNCHANGED <<MAPPINGS_FILE, SEARCH_DB, SEARCH_INDEX_FILE, prior, gen,
                   final_mappings, resp>>

\* GET /mappings_progress: app.mappings_progress_route
MappingsProgressRoute ==
    /\ resp' = [kind |-> "progress",
                phase |-> mappings_progress.phase,
                percent |-> mappings_progress.percent,
                message |-> mappings_progress.message,
                done |-> mappings_progress.done]
    /\ UNCHANGED <<MAPPINGS_FILE, SEARCH_DB, SEARCH_INDEX_FILE, prior, gen,
                   final_mappings, mappings, mappings_progress, load_pc>>

\* a file that is there and cannot be read as what it should be
CorruptDb == [state |-> "corrupt", rows |-> <<>>]

LoadDocs ==
    {OldDoc, Doc("sparql", <<RowPhishing, RowLink>>), Doc("invalid", <<>>)}

InitLoad ==
    /\ MAPPINGS_FILE \in LoadDocs
    /\ SEARCH_DB \in {NoFile, DbFile(script_final(OldDoc)), CorruptDb}
    /\ SEARCH_INDEX_FILE \in {NoFile, JsonFile(script_final(OldDoc)), PartialFile}
    /\ prior = [db |-> SEARCH_DB, idx |-> SEARCH_INDEX_FILE]
    /\ gen = Idle
    /\ final_mappings = NotParsed
    /\ mappings = <<>>
    /\ mappings_progress = InitProgress
    /\ resp = NoResp
    /\ load_pc = "idle"

NextLoad ==
    \/ LoadDb
    \/ LoadIndexMark
    \/ LoadIndexRead
    \/ LoadMissing
    \/ MappingsProgressRoute
    \/ GenDbParse
    \/ GenDbRemove
    \/ GenDbCreate
    \/ GenDbCommit
    \/ GenIndexParse
    \/ GenIndexOpen
    \/ GenIndexDump

\* load_mappings called again and again, the progress polled, while a
\* generator script may rebuild the files.
SpecLoad == InitLoad /\ [][NextLoad]_vars

\* C17 (load progress): whatever the database and the compact index are,
\* mappings_progress says done only with percent 100, and when load_mappings
\* has returned with db_failed, index_failed or missing as its last update,
\* done is false and percent is 0.
C17_LoadProgress ==
    /\ mappings_progress.done => mappings_progress.percent = 100
    /\ load_pc = "idle"
       /\ mappings_progress.phase \in {"db_failed", "index_failed", "missing"}
       => ~mappings_progress.done /\ mappings_progress.percent = 0

\* C17's case: load_mappings has returned after the database and the compact
\* index, both there and both unreadable, were tried.
C17_Witness ==
    /\ load_pc = "idle"
    /\ gen.pc = "idle"
    /\ SEARCH_DB.state = "corrupt"
    /\ SEARCH_INDEX_FILE.state = "partial"
    /\ mappings_progress.phase = "missing"

====
